---- MODULE Spec2Model ----
(***************************************************************************)
(* Model of cloudflared's "tail" command (cmd/cloudflared/tail/cmd.go):    *)
(* filter parsing, session negotiation, the reader goroutine and the       *)
(* coordinator's select loop of Run.                                       *)
(***************************************************************************)
EXTENDS Integers, Sequences, FiniteSets, TLC

VARIABLES
    argLevel,     \* c.String("level")
    argEvents,    \* c.StringSlice("event")
    pc,           \* position of Run: start, dial, send, running, shutdown, done
    filters,      \* the filters parseFilters returned to Run
    err,          \* the error parseFilters returned to Run
    result,       \* what Run returned: "none" while running, "nil" or "error"
    returnedAt,   \* which return statement of Run was taken
    dials,        \* number of websocket.Dial calls made
    connected,    \* websocket.Dial returned a connection
    lastResp,     \* the HTTP response of the failed Dial, or NoResp
    sendCalls,    \* number of management.WriteEvent calls made
    sent,         \* client events written to the connection
    closes,       \* conn.Close calls, in order
    diag,         \* calls on the zerolog logger (stderr), in order
    stdout,       \* lines printed by fmt.Printf
    reader,       \* reader goroutine: idle, select, decoding, done
    readerDone,   \* the readerDone channel is closed
    readerCloses, \* number of close(readerDone) executions
    lastErr,      \* the error that ended the reader, or NoErr
    decodes,      \* number of management.ReadServerEvent calls made
    received,     \* server events decoded successfully, in order
    ctxDone,      \* c.Context is cancelled
    signals       \* signals buffered in the signals channel

vars == <<argLevel, argEvents, pc, filters, err, result, returnedAt, dials, connected,
          lastResp, sendCalls, sent, closes, diag, stdout, reader, readerDone,
          readerCloses, lastErr, decodes, received, ctxDone, signals>>

----------------------------------------------------------------------------
\* Bounds of the model.

\* Longest --event list enumerated for parseFilters.
MaxEventArgs == 2
\* Server events the remote delivers in one session.
MaxServerEvents == 2
\* SIGINT/SIGTERM deliveries in one run.
MaxSignals == 2

----------------------------------------------------------------------------
\* Program constants.

StatusSwitchingProtocols == 101
StatusNoConnector == 530
StatusNormalClosure == 1000
StatusInternalError == 1011
SignalBuffer == 10

----------------------------------------------------------------------------
\* Filter parsing.

LogLevels == <<"debug", "info", "warn", "error">>
LogEventTypes == <<"cloudflared", "http", "tcp", "udp">>

Range(s) == {s[i] : i \in 1..Len(s)}
IndexOf(s, x) == CHOOSE i \in 1..Len(s) : s[i] = x

\* management.ParseLogLevel: the LogLevel (its place in LogLevels) named by l,
\* matched exactly.
ParseLogLevel(l) ==
    IF l \in Range(LogLevels) THEN [l |-> IndexOf(LogLevels, l), ok |-> TRUE]
                              ELSE [l |-> 0, ok |-> FALSE]

\* management.ParseLogEventType: the LogEventType (its place in LogEventTypes)
\* named by v, matched exactly.
ParseLogEventType(v) ==
    IF v \in Range(LogEventTypes) THEN [t |-> IndexOf(LogEventTypes, v), ok |-> TRUE]
                                  ELSE [t |-> 0, ok |-> FALSE]

\* var level *management.LogLevel: nil, or a pointer to a level.
NilLevel == [isNil |-> TRUE, l |-> 0]
LevelPtr(l) == [isNil |-> FALSE, l |-> l]

NilFilters == [isNil |-> TRUE, Level |-> NilLevel, Events |-> <<>>]
StreamingFilters(level, events) == [isNil |-> FALSE, Level |-> level, Events |-> events]

NoError == [isNil |-> TRUE, msg |-> "", valid |-> <<>>]
Errorf(msg, valid) == [isNil |-> FALSE, msg |-> msg, valid |-> valid]

\* The for loop over argEvents: the events appended so far, or the first failure.
RECURSIVE ParseEvents(_, _)
ParseEvents(argv, events) ==
    IF argv = <<>> THEN [events |-> events, ok |-> TRUE]
    ELSE LET p == ParseLogEventType(Head(argv))
         IN  IF ~p.ok THEN [events |-> <<>>, ok |-> FALSE]
             ELSE ParseEvents(Tail(argv), Append(events, p.t))

\* parseFilters with the unrecognized event skipped instead of returned as an error.
parseFiltersSkipInvalidEvent(level, events) ==
    LET lv == IF level # "" THEN ParseLogLevel(level) ELSE [l |-> 0, ok |-> TRUE]
        lp == IF level # "" THEN LevelPtr(lv.l) ELSE NilLevel
        known == SelectSeq(events, LAMBDA v : ParseLogEventType(v).ok)
        ev == ParseEvents(known, <<>>)
    IN  IF ~lv.ok
          THEN [filters |-> NilFilters,
                err |-> Errorf("invalid --level filter provided, please use one of the following Log Levels",
                               LogLevels)]
        ELSE IF lp.isNil /\ Len(ev.events) = 0
          THEN [filters |-> NilFilters, err |-> NoError]
        ELSE [filters |-> StreamingFilters(lp, ev.events), err |-> NoError]

\* parseFilters without the "no filters provided" case: always a struct.
parseFiltersAlwaysStruct(level, events) ==
    LET lv == IF level # "" THEN ParseLogLevel(level) ELSE [l |-> 0, ok |-> TRUE]
        lp == IF level # "" THEN LevelPtr(lv.l) ELSE NilLevel
        ev == ParseEvents(events, <<>>)
    IN  IF ~lv.ok
          THEN [filters |-> NilFilters,
                err |-> Errorf("invalid --level filter provided, please use one of the following Log Levels",
                               LogLevels)]
        ELSE IF ~ev.ok
          THEN [filters |-> NilFilters,
                err |-> Errorf("invalid --event filter provided, please use one of the following EventTypes",
                               LogEventTypes)]
        ELSE [filters |-> StreamingFilters(lp, ev.events), err |-> NoError]

parseFilters(level, events) ==
    LET lv == IF level # "" THEN ParseLogLevel(level) ELSE [l |-> 0, ok |-> TRUE]
        lp == IF level # "" THEN LevelPtr(lv.l) ELSE NilLevel
        ev == ParseEvents(events, <<>>)
    IN  IF ~lv.ok
          THEN [filters |-> NilFilters,
                err |-> Errorf("invalid --level filter provided, please use one of the following Log Levels",
                               LogLevels)]
        ELSE IF ~ev.ok
          THEN [filters |-> NilFilters,
                err |-> Errorf("invalid --event filter provided, please use one of the following EventTypes",
                               LogEventTypes)]
        ELSE IF lp.isNil /\ Len(ev.events) = 0
          THEN [filters |-> NilFilters, err |-> NoError]
        ELSE [filters |-> StreamingFilters(lp, ev.events), err |-> NoError]

----------------------------------------------------------------------------
\* Diagnostics.

Diag(sev, msg, code, text) == [sev |-> sev, msg |-> msg, code |-> code, text |-> text]

\* The messages of the log calls, by the place that makes them.
MsgNoConnector == "no cloudflared connector available or reachable via management request"
MsgResponseCode == "unable to start management log streaming session: http response code returned"
MsgValidationSuccess == "management tunnel validation returned success with invalid HTTP response code"
MsgFailedValidation == "management request failed validation"
MsgInvalidFilters == "invalid filters provided"
MsgUnableToStart == "unable to start management log streaming session"
MsgUnableToRequest == "unable to request logs from management tunnel"
MsgClosing == "closing management connection"
MsgRemoteClosure == "received remote closure"
MsgUnableToRead == "unable to read event from server"
MsgInvalidLogs == "invalid logs event"
MsgUnableToParseFields == "unable to parse fields from event"
MsgUnexpectedType == "unexpected log event type"

----------------------------------------------------------------------------
\* Session negotiation: the HTTP response of a failed upgrade.

NoResp == [isNil |-> TRUE, StatusCode |-> 0,
           Body |-> [decodable |-> FALSE, Success |-> FALSE, Errors |-> <<>>]]
Response(status, body) == [isNil |-> FALSE, StatusCode |-> status, Body |-> body]

managementError(code, message) == [Code |-> code, Message |-> message]

\* Bodies a rejected upgrade can carry: not JSON, or a managementErrorResponse.
Bodies ==
    {[decodable |-> FALSE, Success |-> FALSE, Errors |-> <<>>]} \cup
    [decodable : {TRUE}, Success : BOOLEAN,
     Errors : {<<>>,
               <<managementError(1001, "missing access token")>>,
               <<managementError(1002, "invalid token"),
                 managementError(1001, "missing access token")>>}]

Statuses == {StatusSwitchingProtocols, 403, StatusNoConnector}

Responses == {Response(st, b) : st \in Statuses, b \in Bodies}

\* handleValidationError testing for status 503 instead of 530.
handleValidationErrorStatus503(resp) ==
    LET noConnector ==
            IF resp.StatusCode = 503
              THEN <<Diag("error", MsgNoConnector, 0, "")>>
              ELSE <<>>
        body == resp.Body
        rest ==
            IF ~body.decodable
              THEN <<Diag("error", MsgResponseCode, resp.StatusCode, "")>>
            ELSE IF body.Success \/ Len(body.Errors) = 0
              THEN <<Diag("error", MsgValidationSuccess, 0, "")>>
            ELSE [i \in 1..Len(body.Errors) |->
                    Diag("error", MsgFailedValidation,
                         body.Errors[i].Code, body.Errors[i].Message)]
    IN  noConnector \o rest

\* handleValidationError with "Success && no errors" in place of "Success || no errors".
handleValidationErrorAndEmpty(resp) ==
    LET noConnector ==
            IF resp.StatusCode = StatusNoConnector
              THEN <<Diag("error", MsgNoConnector, 0, "")>>
              ELSE <<>>
        body == resp.Body
        rest ==
            IF ~body.decodable
              THEN <<Diag("error", MsgResponseCode, resp.StatusCode, "")>>
            ELSE IF body.Success /\ Len(body.Errors) = 0
              THEN <<Diag("error", MsgValidationSuccess, 0, "")>>
            ELSE [i \in 1..Len(body.Errors) |->
                    Diag("error", MsgFailedValidation,
                         body.Errors[i].Code, body.Errors[i].Message)]
    IN  noConnector \o rest

handleValidationError(resp) ==
    LET noConnector ==
            IF resp.StatusCode = StatusNoConnector
              THEN <<Diag("error", MsgNoConnector, 0, "")>>
              ELSE <<>>
        body == resp.Body
        rest ==
            IF ~body.decodable
              THEN <<Diag("error", MsgResponseCode, resp.StatusCode, "")>>
            ELSE IF body.Success \/ Len(body.Errors) = 0
              THEN <<Diag("error", MsgValidationSuccess, 0, "")>>
            ELSE [i \in 1..Len(body.Errors) |->
                    Diag("error", MsgFailedValidation,
                         body.Errors[i].Code, body.Errors[i].Message)]
    IN  noConnector \o rest

----------------------------------------------------------------------------
\* The transport: close calls, server events and read errors.

Close(code, reason) == [code |-> code, reason |-> reason]

\* DeferredClose without the defer statement: a return closes nothing.
DeferredCloseMissing(cl) == cl

\* defer conn.Close(websocket.StatusInternalError, ...), run by every return
\* that follows a successful Dial.
DeferredClose(cl) ==
    IF connected
      THEN Append(cl, Close(StatusInternalError, "management connection was closed abruptly"))
      ELSE cl

EventStartStreaming(f) == [Type |-> "start_streaming", Filters |-> f]

Log(message, marshalOk) ==
    [Time |-> "2023-04-05T12:00:00Z", Level |-> "info", Event |-> "http",
     Message |-> message, Fields |-> "{}", marshalOk |-> marshalOk]

\* Events the remote can deliver: logs events (convertible or not), an event of
\* the unknown type and an event of another type.
ServerEvents ==
    {[Type |-> "logs", convertible |-> TRUE, Logs |-> <<Log("a", TRUE), Log("b", FALSE)>>],
     [Type |-> "logs", convertible |-> TRUE, Logs |-> <<Log("c", TRUE)>>],
     [Type |-> "logs", convertible |-> FALSE, Logs |-> <<>>],
     [Type |-> "", convertible |-> FALSE, Logs |-> <<>>],
     [Type |-> "start_streaming", convertible |-> FALSE, Logs |-> <<>>]}

NoErr == [isNil |-> TRUE, closed |-> FALSE, Code |-> 0, Reason |-> ""]
CloseError(code, reason) == [isNil |-> FALSE, closed |-> TRUE, Code |-> code, Reason |-> reason]
ReadError == [isNil |-> FALSE, closed |-> FALSE, Code |-> 0, Reason |-> "EOF"]

\* Errors management.ReadServerEvent can return.
ReadErrors ==
    {CloseError(StatusNormalClosure, ""),
     CloseError(1001, "server restarting"),
     CloseError(StatusInternalError, ""),
     ReadError}

\* management.ReadServerEvent(conn, ctx): the errors a call in flight can return,
\* given whether ctx is cancelled. The call ends only because of the transport:
\* cancellation adds no outcome.
ReadServerEventErrors(cancelled) == ReadErrors

\* management.AsClosed: the websocket.CloseError inside err, or nil.
AsClosed(e) == IF e.closed THEN e ELSE NoErr

\* json.Marshal(l.Fields) and the line fmt.Printf writes for one record.
Line(l) ==
    <<l.Time, l.Level, l.Event, l.Message,
      IF l.marshalOk THEN l.Fields ELSE "unable to parse fields">>

\* PrintLogs with "continue" after a failed json.Marshal: the record's line is dropped.
PrintLogsSkipUnserializable(logs) ==
    LET kept == SelectSeq(logs, LAMBDA l : l.marshalOk)
    IN  [i \in 1..Len(kept) |-> Line(kept[i])]

\* The range loop over logs.Logs: the lines printed, and the diagnostics logged.
PrintLogs(logs) == [i \in 1..Len(logs) |-> Line(logs[i])]

RECURSIVE FieldDiags(_)
FieldDiags(logs) ==
    IF logs = <<>> THEN <<>>
    ELSE (IF Head(logs).marshalOk THEN <<>>
          ELSE <<Diag("debug", MsgUnableToParseFields, 0, Head(logs).Message)>>)
         \o FieldDiags(Tail(logs))

----------------------------------------------------------------------------
\* Inputs of a run.

LevelArgs == {"", "debug", "info", "warn", "error", "DEBUG", "warning"}
EventArgs == {"cloudflared", "http", "tcp", "udp", "HTTP", "dns"}

RECURSIVE SeqsUpTo(_, _)
SeqsUpTo(S, n) ==
    IF n = 0 THEN {<<>>}
    ELSE LET shorter == SeqsUpTo(S, n - 1)
         IN  shorter \cup {Append(q, x) : q \in {r \in shorter : Len(r) = n - 1}, x \in S}

\* The flag values the runs of Spec start from: no filter, each kind of
\* filter, and an invalid level and event.
RunArgs ==
    {<<"", <<>>>>, <<"info", <<>>>>, <<"", <<"tcp", "http">>>>, <<"error", <<"udp">>>>,
     <<"warning", <<"http">>>>, <<"debug", <<"udp", "dns">>>>}

Init ==
    /\ \E a \in RunArgs : argLevel = a[1] /\ argEvents = a[2]
    /\ pc = "start"
    /\ filters = NilFilters
    /\ err = NoError
    /\ result = "none"
    /\ returnedAt = "none"
    /\ dials = 0
    /\ connected = FALSE
    /\ lastResp = NoResp
    /\ sendCalls = 0
    /\ sent = <<>>
    /\ closes = <<>>
    /\ diag = <<>>
    /\ stdout = <<>>
    /\ reader = "idle"
    /\ readerDone = FALSE
    /\ readerCloses = 0
    /\ lastErr = NoErr
    /\ decodes = 0
    /\ received = <<>>
    /\ ctxDone = FALSE
    /\ signals = 0

----------------------------------------------------------------------------
\* The environment: cancellation of c.Context and signal delivery.

Cancel ==
    /\ ~ctxDone
    /\ ctxDone' = TRUE
    /\ UNCHANGED <<argLevel, argEvents, pc, filters, err, result, returnedAt, dials,
                   connected, lastResp, sendCalls, sent, closes, diag, stdout, reader,
                   readerDone, readerCloses, lastErr, decodes, received, signals>>

\* SIGTERM or SIGINT between signal.Notify and the deferred signal.Stop.
DeliverSignal ==
    /\ pc # "done"
    /\ signals < SignalBuffer
    /\ signals < MaxSignals
    /\ signals' = signals + 1
    /\ UNCHANGED <<argLevel, argEvents, pc, filters, err, result, returnedAt, dials,
                   connected, lastResp, sendCalls, sent, closes, diag, stdout, reader,
                   readerDone, readerCloses, lastErr, decodes, received, ctxDone>>

----------------------------------------------------------------------------
\* Run, up to the start of the reader.

\* Return with the WriteEvent error handed to the caller.
ReturnWriteError(at, cl) ==
    /\ pc' = "done"
    /\ result' = IF at = "write error" THEN "error" ELSE "nil"
    /\ returnedAt' = at
    /\ closes' = DeferredClose(cl)

\* A return statement of Run: the result is nil and the deferred close runs.
Return(at, cl) ==
    /\ pc' = "done"
    /\ result' = "nil"
    /\ returnedAt' = at
    /\ closes' = DeferredClose(cl)

\* RunParseFilters without the return after logging the invalid filters.
RunParseFiltersNoReturn ==
    /\ pc = "start"
    /\ LET r == parseFilters(argLevel, argEvents)
       IN  /\ filters' = r.filters
           /\ err' = r.err
           /\ pc' = "dial"
           /\ IF ~r.err.isNil
                THEN diag' = Append(diag, Diag("error", MsgInvalidFilters, 0, r.err.msg))
                ELSE UNCHANGED diag
           /\ UNCHANGED <<result, returnedAt, closes>>
    /\ UNCHANGED <<argLevel, argEvents, dials, connected, lastResp, sendCalls, sent,
                   stdout, reader, readerDone, readerCloses, lastErr, decodes,
                   received, ctxDone, signals>>

RunParseFilters ==
    /\ pc = "start"
    /\ LET r == parseFilters(argLevel, argEvents)
       IN  /\ filters' = r.filters
           /\ err' = r.err
           /\ IF ~r.err.isNil
                THEN /\ diag' = Append(diag, Diag("error", MsgInvalidFilters, 0, r.err.msg))
                     /\ Return("invalid filters", closes)
                ELSE /\ pc' = "dial"
                     /\ UNCHANGED <<diag, result, returnedAt, closes>>
    /\ UNCHANGED <<argLevel, argEvents, dials, connected, lastResp, sendCalls, sent,
                   stdout, reader, readerDone, readerCloses, lastErr, decodes,
                   received, ctxDone, signals>>

\* websocket.Dial returns a connection.
RunDialOk ==
    /\ pc = "dial"
    /\ dials' = dials + 1
    /\ connected' = TRUE
    /\ pc' = "send"
    /\ UNCHANGED <<argLevel, argEvents, filters, err, result, returnedAt, lastResp,
                   sendCalls, sent, closes, diag, stdout, reader, readerDone,
                   readerCloses, lastErr, decodes, received, ctxDone, signals>>

\* RunDialFail dialling again after a failure instead of returning.
RunDialFailRetry ==
    /\ pc = "dial"
    /\ dials' = dials + 1
    /\ \E resp \in Responses \cup {NoResp} :
         /\ lastResp' = resp
         /\ IF ~resp.isNil /\ resp.StatusCode # StatusSwitchingProtocols
              THEN diag' = diag \o handleValidationError(resp)
              ELSE diag' = Append(diag, Diag("error", MsgUnableToStart, 0, ""))
    /\ UNCHANGED <<argLevel, argEvents, pc, filters, err, result, returnedAt, closes,
                   connected, sendCalls, sent, stdout, reader, readerDone, readerCloses,
                   lastErr, decodes, received, ctxDone, signals>>

\* websocket.Dial returns an error, with an HTTP response or without one.
RunDialFail ==
    /\ pc = "dial"
    /\ dials' = dials + 1
    /\ \E resp \in Responses \cup {NoResp} :
         /\ lastResp' = resp
         /\ IF ~resp.isNil /\ resp.StatusCode # StatusSwitchingProtocols
              THEN /\ diag' = diag \o handleValidationError(resp)
                   /\ Return("validation error", closes)
              ELSE /\ diag' = Append(diag, Diag("error", MsgUnableToStart, 0, ""))
                   /\ Return("dial error", closes)
    /\ UNCHANGED <<argLevel, argEvents, filters, err, connected, sendCalls, sent, stdout,
                   reader, readerDone, readerCloses, lastErr, decodes, received,
                   ctxDone, signals>>

\* management.WriteEvent succeeds and the reader goroutine is started.
RunWriteEventOk ==
    /\ pc = "send"
    /\ sendCalls' = sendCalls + 1
    /\ sent' = Append(sent, EventStartStreaming(filters))
    /\ reader' = "select"
    /\ pc' = "running"
    /\ UNCHANGED <<argLevel, argEvents, filters, err, result, returnedAt, dials, connected,
                   lastResp, closes, diag, stdout, readerDone, readerCloses, lastErr,
                   decodes, received, ctxDone, signals>>

\* RunWriteEventFail without the return: the reader is started all the same.
RunWriteEventFailNoReturn ==
    /\ pc = "send"
    /\ sendCalls' = sendCalls + 1
    /\ diag' = Append(diag, Diag("error", MsgUnableToRequest, 0, ""))
    /\ reader' = "select"
    /\ pc' = "running"
    /\ UNCHANGED <<argLevel, argEvents, filters, err, result, returnedAt, closes, dials,
                   connected, lastResp, sent, stdout, readerDone, readerCloses, lastErr,
                   decodes, received, ctxDone, signals>>

\* management.WriteEvent returns an error.
RunWriteEventFail ==
    /\ pc = "send"
    /\ sendCalls' = sendCalls + 1
    /\ diag' = Append(diag, Diag("error", MsgUnableToRequest, 0, ""))
    /\ Return("write error", closes)
    /\ UNCHANGED <<argLevel, argEvents, filters, err, dials, connected, lastResp, sent,
                   stdout, reader, readerDone, readerCloses, lastErr, decodes,
                   received, ctxDone, signals>>

----------------------------------------------------------------------------
\* The reader goroutine.

\* defer close(readerDone), run by every return of the goroutine.
ReaderReturn ==
    /\ reader' = "done"
    /\ readerDone' = TRUE
    /\ readerCloses' = readerCloses + 1

\* ReaderSelect returning on cancellation without close(readerDone).
ReaderSelectNoSignal ==
    /\ reader = "select"
    /\ IF ctxDone
         THEN /\ reader' = "done"
              /\ UNCHANGED <<readerDone, readerCloses, decodes>>
         ELSE /\ reader' = "decoding"
              /\ decodes' = decodes + 1
              /\ UNCHANGED <<readerDone, readerCloses>>
    /\ UNCHANGED <<argLevel, argEvents, pc, filters, err, result, returnedAt, dials,
                   connected, lastResp, sendCalls, sent, closes, diag, stdout, lastErr,
                   received, ctxDone, signals>>

\* ReaderSelect without the ctx.Done() case: every iteration decodes.
ReaderSelectNoCancelCase ==
    /\ reader = "select"
    /\ reader' = "decoding"
    /\ decodes' = decodes + 1
    /\ UNCHANGED <<readerDone, readerCloses>>
    /\ UNCHANGED <<argLevel, argEvents, pc, filters, err, result, returnedAt, dials,
                   connected, lastResp, sendCalls, sent, closes, diag, stdout, lastErr,
                   received, ctxDone, signals>>

\* The select at the top of the loop: ctx.Done() if it is ready, else default,
\* which calls management.ReadServerEvent.
ReaderSelect ==
    /\ reader = "select"
    /\ IF ctxDone
         THEN /\ ReaderReturn
              /\ UNCHANGED decodes
         ELSE /\ reader' = "decoding"
              /\ decodes' = decodes + 1
              /\ UNCHANGED <<readerDone, readerCloses>>
    /\ UNCHANGED <<argLevel, argEvents, pc, filters, err, result, returnedAt, dials,
                   connected, lastResp, sendCalls, sent, closes, diag, stdout, lastErr,
                   received, ctxDone, signals>>

\* ReaderDecodeError with the reader closing the connection when a read fails.
ReaderDecodeErrorClosesConn ==
    /\ reader = "decoding"
    /\ \E readErr \in ReadServerEventErrors(ctxDone) :
         /\ lastErr' = readErr
         /\ LET closeErr == AsClosed(readErr)
            IN  IF ~closeErr.isNil
                  THEN IF closeErr.Code = StatusNormalClosure
                         THEN UNCHANGED diag
                         ELSE diag' = Append(diag, Diag("error", MsgRemoteClosure,
                                                        closeErr.Code, closeErr.Reason))
                  ELSE diag' = Append(diag, Diag("error", MsgUnableToRead, 0, readErr.Reason))
    /\ closes' = Append(closes, Close(StatusInternalError, "read failed"))
    /\ ReaderReturn
    /\ UNCHANGED <<argLevel, argEvents, pc, filters, err, result, returnedAt, dials,
                   connected, lastResp, sendCalls, sent, stdout, decodes,
                   received, ctxDone, signals>>

\* ReaderDecodeError without the test for the normal closure code.
ReaderDecodeErrorLogsNormal ==
    /\ reader = "decoding"
    /\ \E readErr \in ReadErrors :
         /\ lastErr' = readErr
         /\ LET closeErr == AsClosed(readErr)
            IN  IF ~closeErr.isNil
                  THEN diag' = Append(diag, Diag("error", MsgRemoteClosure,
                                                 closeErr.Code, closeErr.Reason))
                  ELSE diag' = Append(diag, Diag("error", MsgUnableToRead, 0, readErr.Reason))
    /\ ReaderReturn
    /\ UNCHANGED <<argLevel, argEvents, pc, filters, err, result, returnedAt, dials,
                   connected, lastResp, sendCalls, sent, closes, stdout, decodes,
                   received, ctxDone, signals>>

\* management.ReadServerEvent returns an error.
ReaderDecodeError ==
    /\ reader = "decoding"
    /\ \E readErr \in ReadServerEventErrors(ctxDone) :
         /\ lastErr' = readErr
         /\ LET closeErr == AsClosed(readErr)
            IN  IF ~closeErr.isNil
                  THEN IF closeErr.Code = StatusNormalClosure
                         THEN UNCHANGED diag
                         ELSE diag' = Append(diag, Diag("error", MsgRemoteClosure,
                                                        closeErr.Code, closeErr.Reason))
                  ELSE diag' = Append(diag, Diag("error", MsgUnableToRead, 0, readErr.Reason))
    /\ ReaderReturn
    /\ UNCHANGED <<argLevel, argEvents, pc, filters, err, result, returnedAt, dials,
                   connected, lastResp, sendCalls, sent, closes, stdout, decodes,
                   received, ctxDone, signals>>

\* ReaderDecodeEvent with "return" in place of "continue" after an invalid logs
\* event.
ReaderDecodeEventInvalidReturns ==
    /\ reader = "decoding"
    /\ Len(received) < MaxServerEvents
    /\ \E event \in ServerEvents :
         /\ received' = Append(received, event)
         /\ IF event.Type = "logs"
              THEN IF ~event.convertible
                     THEN /\ diag' = Append(diag, Diag("error", MsgInvalidLogs, 0, ""))
                          /\ ReaderReturn
                          /\ UNCHANGED stdout
                     ELSE /\ stdout' = stdout \o PrintLogs(event.Logs)
                          /\ diag' = diag \o FieldDiags(event.Logs)
                          /\ reader' = "select"
                          /\ UNCHANGED <<readerDone, readerCloses>>
              ELSE /\ diag' = Append(diag, Diag("debug", MsgUnexpectedType, 0, event.Type))
                   /\ reader' = "select"
                   /\ UNCHANGED <<stdout, readerDone, readerCloses>>
    /\ UNCHANGED <<argLevel, argEvents, pc, filters, err, result, returnedAt, dials,
                   connected, lastResp, sendCalls, sent, closes, lastErr, decodes,
                   ctxDone, signals>>

\* management.ReadServerEvent returns an event: the switch on event.Type.
ReaderDecodeEvent ==
    /\ reader = "decoding"
    /\ Len(received) < MaxServerEvents
    /\ \E event \in ServerEvents :
         /\ received' = Append(received, event)
         /\ IF event.Type = "logs"
              THEN IF ~event.convertible
                     THEN /\ diag' = Append(diag, Diag("error", MsgInvalidLogs, 0, ""))
                          /\ UNCHANGED stdout
                     ELSE /\ stdout' = stdout \o PrintLogs(event.Logs)
                          /\ diag' = diag \o FieldDiags(event.Logs)
              ELSE /\ diag' = Append(diag, Diag("debug", MsgUnexpectedType, 0, event.Type))
                   /\ UNCHANGED stdout
    /\ reader' = "select"
    /\ UNCHANGED <<argLevel, argEvents, pc, filters, err, result, returnedAt, dials,
                   connected, lastResp, sendCalls, sent, closes, readerDone,
                   readerCloses, lastErr, decodes, ctxDone, signals>>

----------------------------------------------------------------------------
\* The coordinator: the select loop at the end of Run.

CoordinatorCtxDone ==
    /\ pc = "running"
    /\ ctxDone
    /\ Return("ctx done", closes)
    /\ UNCHANGED <<argLevel, argEvents, filters, err, dials, connected, lastResp, sendCalls,
                   sent, diag, stdout, reader, readerDone, readerCloses, lastErr,
                   decodes, received, ctxDone, signals>>

\* CoordinatorReaderDone with "break" in place of "return nil": the break leaves
\* the select, not the for loop.
CoordinatorReaderDoneBreaks ==
    /\ pc = "running"
    /\ readerDone
    /\ UNCHANGED vars

\* CoordinatorReaderDone closing the connection with the normal closure code
\* before it returns.
CoordinatorReaderDoneCloses ==
    /\ pc = "running"
    /\ readerDone
    /\ Return("reader done", Append(closes, Close(StatusNormalClosure, "")))
    /\ UNCHANGED <<argLevel, argEvents, filters, err, dials, connected, lastResp, sendCalls,
                   sent, diag, stdout, reader, readerDone, readerCloses, lastErr,
                   decodes, received, ctxDone, signals>>

CoordinatorReaderDone ==
    /\ pc = "running"
    /\ readerDone
    /\ Return("reader done", closes)
    /\ UNCHANGED <<argLevel, argEvents, filters, err, dials, connected, lastResp, sendCalls,
                   sent, diag, stdout, reader, readerDone, readerCloses, lastErr,
                   decodes, received, ctxDone, signals>>

\* CoordinatorSignal going round the for loop after the close instead of entering
\* the inner select.
CoordinatorSignalLoops ==
    /\ pc = "running"
    /\ signals > 0
    /\ signals' = signals - 1
    /\ diag' = Append(diag, Diag("debug", MsgClosing, 0, ""))
    /\ closes' = Append(closes, Close(StatusNormalClosure, ""))
    /\ UNCHANGED <<argLevel, argEvents, pc, filters, err, result, returnedAt, dials,
                   connected, lastResp, sendCalls, sent, stdout, reader, readerDone,
                   readerCloses, lastErr, decodes, received, ctxDone>>

\* case <-signals: log, conn.Close(StatusNormalClosure, ""), then the inner select.
CoordinatorSignal ==
    /\ pc = "running"
    /\ signals > 0
    /\ signals' = signals - 1
    /\ diag' = Append(diag, Diag("debug", MsgClosing, 0, ""))
    /\ closes' = Append(closes, Close(StatusNormalClosure, ""))
    /\ pc' = "shutdown"
    /\ UNCHANGED <<argLevel, argEvents, filters, err, result, returnedAt, dials, connected,
                   lastResp, sendCalls, sent, stdout, reader, readerDone, readerCloses,
                   lastErr, decodes, received, ctxDone>>

\* The inner select: case <-readerDone.
ShutdownReaderDone ==
    /\ pc = "shutdown"
    /\ readerDone
    /\ Return("signal, reader done", closes)
    /\ UNCHANGED <<argLevel, argEvents, filters, err, dials, connected, lastResp, sendCalls,
                   sent, diag, stdout, reader, readerDone, readerCloses, lastErr,
                   decodes, received, ctxDone, signals>>

\* The inner select without the timer: only readerDone ends the wait.
ShutdownWithoutTimer ==
    /\ pc = "shutdown"
    /\ readerDone
    /\ Return("signal, timeout", closes)
    /\ UNCHANGED <<argLevel, argEvents, filters, err, dials, connected, lastResp, sendCalls,
                   sent, diag, stdout, reader, readerDone, readerCloses, lastErr,
                   decodes, received, ctxDone, signals>>

\* The inner select: case <-time.After(time.Second).
ShutdownTimeout ==
    /\ pc = "shutdown"
    /\ Return("signal, timeout", closes)
    /\ UNCHANGED <<argLevel, argEvents, filters, err, dials, connected, lastResp, sendCalls,
                   sent, diag, stdout, reader, readerDone, readerCloses, lastErr,
                   decodes, received, ctxDone, signals>>

----------------------------------------------------------------------------

Next ==
    \/ Cancel
    \/ DeliverSignal
    \/ RunParseFilters
    \/ RunDialOk
    \/ RunDialFail
    \/ RunWriteEventOk
    \/ RunWriteEventFail
    \/ ReaderSelect
    \/ ReaderDecodeError
    \/ ReaderDecodeEvent
    \/ CoordinatorCtxDone
    \/ CoordinatorReaderDone
    \/ CoordinatorSignal
    \/ ShutdownReaderDone
    \/ ShutdownTimeout

Spec == Init /\ [][Next]_vars

\* The coordinator goroutine is scheduled, and the timer of time.After fires.
LiveSpec == Spec /\ WF_vars(ShutdownTimeout)

\* The coordinator goroutine is scheduled: a select with a ready case takes one
\* of its ready cases, and the timer of time.After fires.
CoordinatorLiveSpec ==
    /\ Spec
    /\ WF_vars(CoordinatorCtxDone \/ CoordinatorReaderDone \/ CoordinatorSignal)
    /\ WF_vars(ShutdownReaderDone \/ ShutdownTimeout)

\* parseFilters on every level string and every event list up to MaxEventArgs.
FilterInit ==
    /\ argLevel \in LevelArgs
    /\ argEvents \in SeqsUpTo(EventArgs, MaxEventArgs)
    /\ pc = "start"
    /\ filters = NilFilters
    /\ err = NoError
    /\ result = "none"
    /\ returnedAt = "none"
    /\ dials = 0
    /\ connected = FALSE
    /\ lastResp = NoResp
    /\ sendCalls = 0
    /\ sent = <<>>
    /\ closes = <<>>
    /\ diag = <<>>
    /\ stdout = <<>>
    /\ reader = "idle"
    /\ readerDone = FALSE
    /\ readerCloses = 0
    /\ lastErr = NoErr
    /\ decodes = 0
    /\ received = <<>>
    /\ ctxDone = FALSE
    /\ signals = 0

FilterNext == RunParseFilters

FilterSpec == FilterInit /\ [][FilterNext]_vars

----------------------------------------------------------------------------
\* Properties.

CountMsg(log, msg) == Cardinality({i \in 1..Len(log) : log[i].msg = msg})

ReturnPaths ==
    {"invalid filters", "validation error", "dial error", "write error", "ctx done",
     "reader done", "signal, reader done", "signal, timeout"}

\* C1: a signal taken while Running sends the normal-closure close with an empty
\* reason, the wait that follows ends only by reader completion or by the
\* timeout, and it always ends: the coordinator reaches Done even if the reader
\* never signals completion.
C1_SignalShutdownReachesDone ==
    /\ [][(pc = "running" /\ pc' = "shutdown") =>
            (signals > 0 /\ closes' = Append(closes, Close(StatusNormalClosure, "")))]_vars
    /\ [][(pc = "shutdown" /\ pc' # "shutdown") =>
            /\ pc' = "done"
            /\ returnedAt' \in {"signal, reader done", "signal, timeout"}
            /\ (returnedAt' = "signal, reader done" => readerDone)]_vars
    /\ (pc = "shutdown") ~> (pc = "done")

C1_Witness ==
    /\ pc = "done"
    /\ returnedAt = "signal, timeout"
    /\ ~readerDone
    /\ closes[1] = Close(StatusNormalClosure, "")

\* C2: Run returns nil on every path: it never returns an error, and it is Done
\* exactly when it has returned nil from one of its return statements.
C2_RunReturnsNil ==
    /\ result \in {"none", "nil"}
    /\ (pc = "done") <=> (result = "nil")
    /\ (pc = "done") <=> (returnedAt \in ReturnPaths)

C2_Witness ==
    /\ pc = "done"
    /\ result = "nil"
    /\ returnedAt = "write error"
    /\ CountMsg(diag, MsgUnableToRequest) = 1

\* C3: at most one connection attempt is made, and after a failed attempt no
\* start_streaming is sent, no reader is started, nothing is decoded or printed,
\* and the run has ended.
C3_DialFailureIsTerminal ==
    /\ dials <= 1
    /\ (dials = 1 /\ ~connected) =>
         /\ pc = "done"
         /\ sendCalls = 0
         /\ sent = <<>>
         /\ reader = "idle"
         /\ decodes = 0
         /\ stdout = <<>>

C3_Witness ==
    /\ dials = 1
    /\ ~connected
    /\ ~lastResp.isNil
    /\ lastResp.StatusCode = 403
    /\ pc = "done"

\* C4: after a connection attempt that failed with status 530, the
\* unreachable-connector message has been logged exactly once and exactly one
\* connection attempt has been made.
C4_NoConnectorLoggedOnce ==
    (~lastResp.isNil /\ lastResp.StatusCode = StatusNoConnector) =>
        /\ CountMsg(diag, MsgNoConnector) = 1
        /\ dials = 1
        /\ pc = "done"

C4_Witness ==
    /\ ~lastResp.isNil
    /\ lastResp.StatusCode = StatusNoConnector
    /\ diag[1] = Diag("error", MsgNoConnector, 0, "")

\* The upgrade was rejected with a status that is neither 101 nor 530.
RejectedOther ==
    /\ ~lastResp.isNil
    /\ lastResp.StatusCode \notin {StatusSwitchingProtocols, StatusNoConnector}

HasValidationErrors(body) ==
    body.decodable /\ ~body.Success /\ Len(body.Errors) > 0

ValidationDiags(errors) ==
    [i \in 1..Len(errors) |->
        Diag("error", MsgFailedValidation, errors[i].Code, errors[i].Message)]

\* C5 as stated: a rejected upgrade logs one diagnostic per (code, message) pair
\* when the body holds a non-success, non-empty error list, and in every other
\* case a generic failure diagnostic citing the raw status code.
C5_Original ==
    RejectedOther =>
        IF HasValidationErrors(lastResp.Body)
          THEN diag = ValidationDiags(lastResp.Body.Errors)
          ELSE \E i \in 1..Len(diag) :
                  /\ diag[i].sev = "error"
                  /\ diag[i].msg # MsgFailedValidation
                  /\ diag[i].code = lastResp.StatusCode

\* C5 (amended): a rejected upgrade logs one diagnostic per (code, message) pair,
\* in list order, when the body holds a non-success, non-empty error list; the
\* generic diagnostic citing the raw status code when the body cannot be decoded;
\* and one diagnostic that cites no status code when the body decodes with
\* success=true or an empty error list.
C5_RejectedUpgradeDiagnostics ==
    RejectedOther =>
        IF HasValidationErrors(lastResp.Body)
          THEN diag = ValidationDiags(lastResp.Body.Errors)
        ELSE IF ~lastResp.Body.decodable
          THEN diag = <<Diag("error", MsgResponseCode, lastResp.StatusCode, "")>>
        ELSE diag = <<Diag("error", MsgValidationSuccess, 0, "")>>

C5_Witness ==
    /\ RejectedOther
    /\ lastResp.Body.decodable
    /\ ~lastResp.Body.Success
    /\ lastResp.Body.Errors = <<>>
    /\ diag = <<Diag("error", MsgValidationSuccess, 0, "")>>

\* C6: start_streaming is sent once, after the connection is established and
\* before the reader starts or decodes; the coordinator is Running (and the reader
\* started) only if the send succeeded, and every run that established the
\* connection has made the send by the time it ends.
C6_StartStreamingOnce ==
    /\ sendCalls <= 1
    /\ Len(sent) <= sendCalls
    /\ sendCalls > 0 => connected
    /\ \A i \in 1..Len(sent) : sent[i].Type = "start_streaming"
    /\ (reader # "idle" \/ decodes > 0 \/ received # <<>>) => Len(sent) = 1
    /\ pc \in {"running", "shutdown"} => (Len(sent) = 1 /\ reader # "idle")
    /\ (pc = "done" /\ connected) => sendCalls = 1
    /\ (pc = "done" /\ connected /\ returnedAt # "write error") => Len(sent) = 1
    /\ returnedAt = "write error" => (sent = <<>> /\ reader = "idle")

C6_Witness ==
    /\ pc = "running"
    /\ Len(sent) = 1
    /\ reader = "decoding"
    /\ decodes = 1

LevelIsValid(l) == l = "" \/ l \in {"debug", "info", "warn", "error"}
EventsAreValid(ev) == \A i \in 1..Len(ev) : ev[i] \in {"cloudflared", "http", "tcp", "udp"}

\* C7: parsing succeeds exactly when the level is empty or a level name and every
\* event is an event type name; a failed parse returns no filter and an error
\* that enumerates the valid values of the flag that failed.
C7_ParseSucceedsIffValid ==
    pc # "start" =>
        /\ err.isNil <=> (LevelIsValid(argLevel) /\ EventsAreValid(argEvents))
        /\ ~err.isNil =>
             /\ filters = NilFilters
             /\ pc = "done"
             /\ err.valid = IF ~LevelIsValid(argLevel)
                              THEN <<"debug", "info", "warn", "error">>
                              ELSE <<"cloudflared", "http", "tcp", "udp">>

C7_Witness ==
    /\ pc = "done"
    /\ argLevel = "info"
    /\ argEvents = <<"tcp", "dns">>
    /\ ~err.isNil
    /\ filters.isNil

\* C8: for valid inputs parseFilters returns nil exactly when the level and the
\* event list are both empty, and otherwise a filter with the parsed level (if
\* any) and the parsed events in input order; start_streaming carries that
\* result, so a filter is sent only when a level or an event was given.
C8_FilterNilIffEmpty ==
    /\ (pc # "start" /\ err.isNil) =>
         /\ filters.isNil <=> (argLevel = "" /\ argEvents = <<>>)
         /\ ~filters.isNil =>
              /\ filters.Level.isNil <=> (argLevel = "")
              /\ ~filters.Level.isNil => LogLevels[filters.Level.l] = argLevel
              /\ Len(filters.Events) = Len(argEvents)
              /\ \A i \in 1..Len(argEvents) :
                    LogEventTypes[filters.Events[i]] = argEvents[i]
    /\ \A i \in 1..Len(sent) :
         /\ sent[i].Filters = filters
         /\ ~sent[i].Filters.isNil => (argLevel # "" \/ argEvents # <<>>)

C8_Witness ==
    /\ Len(sent) = 1
    /\ ~sent[1].Filters.isNil
    /\ sent[1].Filters.Level.isNil
    /\ argEvents = <<"tcp", "http">>
    /\ sent[1].Filters.Events = <<3, 2>>

\* C9: when filter parsing fails the run has ended with no network activity: no
\* connection attempt, no start_streaming, no reader and no close.
C9_InvalidFiltersNoNetwork ==
    ~err.isNil =>
        /\ pc = "done"
        /\ returnedAt = "invalid filters"
        /\ dials = 0
        /\ ~connected
        /\ sendCalls = 0
        /\ sent = <<>>
        /\ reader = "idle"
        /\ decodes = 0
        /\ closes = <<>>

C9_Witness ==
    /\ ~err.isNil
    /\ argLevel = "warning"
    /\ pc = "done"
    /\ diag = <<Diag("error", MsgInvalidFilters, 0, err.msg)>>

\* C10: a decode error ends the reader: silently for a closure with the normal
\* closure code, after one error diagnostic with the code and the reason for any
\* other closure, and after one error diagnostic with the raw error otherwise;
\* the ended reader decodes no more.
C10_DecodeErrorClassified ==
    /\ [][(reader = "decoding" /\ ~lastErr'.isNil) =>
            /\ reader' = "done"
            /\ decodes' = decodes
            /\ diag' = IF lastErr'.closed /\ lastErr'.Code = StatusNormalClosure
                         THEN diag
                       ELSE IF lastErr'.closed
                         THEN Append(diag, Diag("error", MsgRemoteClosure,
                                                lastErr'.Code, lastErr'.Reason))
                       ELSE Append(diag, Diag("error", MsgUnableToRead, 0,
                                              lastErr'.Reason))]_vars
    /\ [][reader = "done" => (reader' = "done" /\ decodes' = decodes)]_vars

C10_Witness ==
    /\ reader = "done"
    /\ lastErr = CloseError(1001, "server restarting")
    /\ \E i \in 1..Len(diag) :
          diag[i] = Diag("error", MsgRemoteClosure, 1001, "server restarting")


\* The line of one record: time, level, event, message and the serialized fields,
\* or the placeholder when the fields cannot be serialized.
ExpectedLine(l) ==
    <<l.Time, l.Level, l.Event, l.Message,
      IF l.marshalOk THEN l.Fields ELSE "unable to parse fields">>

\* The lines of the records of the logs events among evs, in order.
RECURSIVE ExpectedOutput(_)
ExpectedOutput(evs) ==
    IF evs = <<>> THEN <<>>
    ELSE (IF Head(evs).Type = "logs" /\ Head(evs).convertible
            THEN [i \in 1..Len(Head(evs).Logs) |-> ExpectedLine(Head(evs).Logs[i])]
            ELSE <<>>)
         \o ExpectedOutput(Tail(evs))

\* C11: standard output is one line per record of every decoded logs event, in
\* arrival order and in record order; an unserializable record still has its
\* line, with the placeholder, and the reader ends only by a decode error or by
\* cancellation, never because of a record.
C11_StdoutIsRecordsReceived ==
    /\ stdout = ExpectedOutput(received)
    /\ reader = "done" => (~lastErr.isNil \/ ctxDone)

C11_Witness ==
    /\ Len(received) = 2
    /\ received[1].Type = "logs" /\ Len(received[1].Logs) = 2
    /\ received[2].Type = "logs" /\ Len(received[2].Logs) = 1
    /\ Len(stdout) = 3
    /\ stdout[1][4] = "a"
    /\ stdout[2] = <<"2023-04-05T12:00:00Z", "info", "http", "b", "unable to parse fields">>
    /\ stdout[3][4] = "c"
    /\ reader = "decoding"


\* C12: after the unreachable-connector message for a 530 response nothing else
\* is logged for that response: the message is the only diagnostic of the run.
C12_NoConnectorOnlyDiagnostic ==
    (~lastResp.isNil /\ lastResp.StatusCode = StatusNoConnector) =>
        diag = <<Diag("error", MsgNoConnector, 0, "")>>


InternalErrorClose == Close(StatusInternalError, "management connection was closed abruptly")

\* C14 as stated: a run that left Running by cancellation or by reader completion
\* has invoked no close on the connection.
C14_Original ==
    returnedAt \in {"ctx done", "reader done"} => closes = <<>>

\* C14 (amended): a run that left Running by cancellation or by reader completion
\* has sent no normal-closure close and nothing more on the transport; the one
\* close it invoked is the deferred close with the internal-error status.
C14_OnlyDeferredClose ==
    returnedAt \in {"ctx done", "reader done"} =>
        /\ pc = "done"
        /\ closes = <<InternalErrorClose>>
        /\ Len(sent) = 1

C14_Witness ==
    /\ returnedAt = "reader done"
    /\ closes = <<InternalErrorClose>>
    /\ readerDone


\* The reader has signalled completion exactly when it has ended, and once.
ReaderSignalledIffEnded ==
    /\ readerDone <=> (reader = "done")
    /\ readerCloses = IF reader = "done" THEN 1 ELSE 0

\* C15: on each of its termination paths (cancellation seen, normal closure,
\* other closure, other decode error) the reader signals completion exactly once,
\* it never signals while it runs, and its steps leave Run where it is: the
\* reader does not end the process.
C15_ReaderSignalsOnce ==
    /\ ReaderSignalledIffEnded
    /\ [][ReaderSignalledIffEnded']_vars
    /\ [][(reader \in {"select", "decoding"} /\ reader' # reader) =>
            (pc' = pc /\ result' = result /\ returnedAt' = returnedAt)]_vars
    /\ [][(reader # "done" /\ reader' = "done") =>
            \/ (reader = "select" /\ ctxDone /\ lastErr' = lastErr)
            \/ (reader = "decoding" /\ ~lastErr'.isNil)]_vars

C15_Witness ==
    /\ reader = "done"
    /\ lastErr.isNil
    /\ ctxDone
    /\ readerDone
    /\ readerCloses = 1
    /\ pc = "running"


NormalCloses(cl) == Cardinality({i \in 1..Len(cl) : cl[i].code = StatusNormalClosure})

\* C16: the coordinator moves only Running->Done (cancellation or reader
\* completion), Running->ShuttingDown (a signal taken) and ShuttingDown->Done
\* (reader completion or timeout), and Done is terminal; in ShuttingDown it takes
\* no signal and closes nothing until it returns; the normal-closure close is
\* made at most once, and only on the step Running->ShuttingDown.
C16_CoordinatorTransitions ==
    /\ [][(pc = "running" /\ pc' # "running") =>
            \/ /\ pc' = "done"
               /\ \/ (returnedAt' = "ctx done" /\ ctxDone)
                  \/ (returnedAt' = "reader done" /\ readerDone)
            \/ /\ pc' = "shutdown"
               /\ signals > 0
               /\ signals' = signals - 1]_vars
    /\ [][(pc = "shutdown" /\ pc' # "shutdown") =>
            /\ pc' = "done"
            /\ \/ (returnedAt' = "signal, reader done" /\ readerDone)
               \/ returnedAt' = "signal, timeout"]_vars
    /\ [][pc = "done" => (pc' = "done" /\ returnedAt' = returnedAt /\ closes' = closes)]_vars
    /\ [][(pc = "shutdown" /\ pc' = "shutdown") =>
            (closes' = closes /\ signals' >= signals /\ sent' = sent)]_vars
    /\ [][NormalCloses(closes') # NormalCloses(closes) =>
            (pc = "running" /\ pc' = "shutdown" /\ NormalCloses(closes') = 1)]_vars

C16_Witness ==
    /\ pc = "shutdown"
    /\ ctxDone
    /\ signals = 2
    /\ closes = <<Close(StatusNormalClosure, "")>>


\* The event is not a logs event, or is a logs event that does not convert.
NotPrintable(event) == event.Type # "logs" \/ ~event.convertible

\* C17: decoding an event that is not a logs event, or a logs event that does not
\* convert, prints nothing, logs one diagnostic, leaves the reader running at
\* its next cancellation check, and leaves Run where it is.
C17_OtherEventsNotFatal ==
    [][(received' # received /\ NotPrintable(received'[Len(received')])) =>
         /\ stdout' = stdout
         /\ Len(diag') = Len(diag) + 1
         /\ reader' = "select"
         /\ ~readerDone'
         /\ lastErr' = lastErr
         /\ pc' = pc
         /\ result' = result]_vars

C17_Witness ==
    /\ Len(received) = 2
    /\ received[1].Type = "logs" /\ ~received[1].convertible
    /\ received[2].Type = ""
    /\ stdout = <<>>
    /\ reader = "decoding"
    /\ decodes = 3


\* C18: once the reader has ended while the coordinator is Running or
\* ShuttingDown, the coordinator reaches Done; a remote normal closure ends the
\* reader without a diagnostic, and the return that follows reader completion
\* logs nothing and returns nil.
C18_ReaderEndLeadsToDone ==
    /\ (readerDone /\ pc \in {"running", "shutdown"}) ~> (pc = "done")
    /\ [][(reader # "done" /\ reader' = "done" /\ lastErr'.closed
           /\ lastErr'.Code = StatusNormalClosure) => diag' = diag]_vars
    /\ [][(pc # "done" /\ pc' = "done"
           /\ returnedAt' \in {"reader done", "signal, reader done"}) =>
            (readerDone /\ diag' = diag /\ result' = "nil")]_vars

C18_Witness ==
    /\ pc = "done"
    /\ returnedAt = "reader done"
    /\ lastErr = CloseError(StatusNormalClosure, "")
    /\ received = <<>>
    /\ decodes = 1
    /\ diag = <<>>
    /\ result = "nil"


\* C19: the transport is written only by the goroutine of Run, one write at a
\* time: start_streaming is written once, before the reader exists and before
\* any close; every close is made by a step of Run, after WriteEvent has
\* returned; no step of the reader writes a client event or closes.
C19_WritesAreSequential ==
    /\ [][sent' # sent =>
            /\ pc = "send" /\ pc' = "running"
            /\ reader = "idle"
            /\ sent = <<>> /\ Len(sent') = 1
            /\ closes = <<>> /\ closes' = closes]_vars
    /\ [][closes' # closes =>
            /\ pc \in {"send", "running", "shutdown"}
            /\ pc' \in {"shutdown", "done"}
            /\ pc' # pc
            /\ sendCalls' = 1
            /\ sent' = sent
            /\ reader' = reader]_vars
    /\ [][(reader # "idle" /\ reader' # reader) =>
            (sent' = sent /\ closes' = closes /\ sendCalls' = sendCalls)]_vars

C19_Witness ==
    /\ Len(sent) = 1
    /\ Len(closes) = 2
    /\ reader = "done"
    /\ ~lastErr.isNil
    /\ returnedAt = "signal, reader done"


\* C20: a run that established the connection has, once returned, invoked close
\* on it: on the signal paths the normal-closure close and then the deferred
\* internal-error close, on every other path the internal-error close alone; a
\* run that did not establish the connection has closed nothing.
C20_EveryReturnCloses ==
    /\ ~connected => closes = <<>>
    /\ (pc = "done" /\ connected) =>
         /\ returnedAt \in {"write error", "ctx done", "reader done",
                            "signal, reader done", "signal, timeout"}
         /\ closes = IF returnedAt \in {"signal, reader done", "signal, timeout"}
                       THEN <<Close(StatusNormalClosure, ""), InternalErrorClose>>
                       ELSE <<InternalErrorClose>>
    /\ (pc # "done" /\ connected) =>
         closes = IF pc = "shutdown" THEN <<Close(StatusNormalClosure, "")>> ELSE <<>>

C20_Witness ==
    /\ pc = "done"
    /\ connected
    /\ returnedAt = "signal, timeout"
    /\ closes = <<Close(StatusNormalClosure, ""), InternalErrorClose>>
    /\ reader = "decoding"

====
